---- MODULE Spec2Model ----
(***************************************************************************)
(* Verification model of the OGGM-Edu glacier notebooks:                   *)
(*   - flowline_model notebook   (src/unnamed/part_000): direct calls of   *)
(*     model.run_until and the "loop over the years" driver;               *)
(*   - surging_experiment notebook: construction of the surge schedule     *)
(*     yrs and the surging_glacier driver;                                 *)
(*   - advance_and_retreat notebook: the no-flow surface mb_sfc and the    *)
(*     construction of the bed, the widths and the flowline;               *)
(*   - the ELA notebook (src/unnamed/part_001): the run with three ELA     *)
(*     stages.                                                             *)
(* The flow model itself (FluxBasedModel) and the oggm_edu helpers are not *)
(* part of the sources; they are modelled from the specification.          *)
(***************************************************************************)
EXTENDS Integers, Sequences, FiniteSets, TLC

VARIABLES
    pc,         \* position in the notebook that is being executed
    model,      \* the FlowlineModel object: yr, length_m, volume_km3, fs, mb_model
    calls,      \* history of run_until calls on the current model (ghost)
    yrs,        \* the checkpoint years
    surge,      \* surge[j]: yrs[j] was appended from yrs_sliding (ghost)
    i,          \* loop counter (Python index, 0-based)
    length,     \* recorded glacier length per checkpoint
    vol,        \* recorded glacier volume per checkpoint
    yr_rec,     \* model.yr observed when checkpoint was recorded (ghost)
    t_slow,     \* years between two surges
    period_s,   \* surging period in years
    no_surges,  \* number of surges
    fs_surge,   \* sliding parameter in surging periods (units of 5.7e-20)
    bed_h,      \* bedrock profile
    initial,    \* equilibrium surface of the test glacier
    ela,        \* equilibrium line altitude (the recorded series in the ELA run)
    mb_grad,    \* mass balance gradient
    mb_sfc,     \* no-flow surfaces computed so far: name -> profile
    top,        \* top altitude handed to the bed construction
    bottom,     \* bottom altitude handed to the bed construction
    nx,         \* number of grid points handed to the geometry construction
    nz_num,     \* numerator of NZ, the fraction of the accumulation area
    widths,     \* width profile
    init_flowline,  \* the RectangularBedFlowline the models are built from
    raised,     \* checkpoints (1-based) at which run_until raised (ghost)
    current_ela,    \* current_ela of the three-stage ELA run
    area,       \* recorded glacier area per checkpoint
    assigned,   \* mb_model assignments of the last loop pass (ghost)
    spans,      \* the spans shaded by axvspan so far
    y_1,        \* year at which the advance has reached 1 - 1/e of its range
    y_2,        \* year at which the retreat has reached 1 - 1/e of its range
    surging_model   \* length and volume returned by the first surging run

vars == <<pc, model, calls, yrs, surge, i, length, vol, yr_rec,
          t_slow, period_s, no_surges, fs_surge,
          bed_h, initial, ela, mb_grad, mb_sfc,
          top, bottom, nx, nz_num, widths, init_flowline,
          raised, current_ela, area, assigned, spans, y_1, y_2, surging_model>>

surgeParams == <<t_slow, period_s, no_surges, fs_surge>>
reconVars == <<bed_h, initial, ela, mb_grad, mb_sfc>>
loopVars == <<yrs, surge, i, length, vol, yr_rec>>
geomVars == <<top, bottom, nx, nz_num>>
flVars == <<widths, init_flowline>>
elaVars == <<current_ela, area, assigned>>
tauVars == <<y_1, y_2>>

----------------------------------------------------------------------------
(* Bounds of the model *)

\* largest year a direct run_until call asks for
MaxYear == 4
\* number of direct run_until calls before the model is re-initialised
MaxCalls == 3
\* exclusive end of the year range of the reporting loop (601 in the notebook)
LoopStop == 21

\* largest time span between two surges that is tried (100 in the notebook)
MaxTSlow == 21
\* longest surging period that is tried (10 in the notebook)
MaxPeriod == 3
\* largest number of surges that is tried (10 in the notebook)
MaxSurges == 3

\* number of grid points that is tried (nx = 200 in the notebook)
NX == 3
\* highest bed elevation that is tried
MaxElev == 2
\* largest ice thickness that is tried
MaxThick == 1
\* largest mass-balance gradient that is tried (mb_grad = 7 in the notebook)
MaxGrad == 2
\* highest altitude that is tried for the top and the bottom of a bed
MaxAlt == 3
\* largest number of grid points handed to the geometry construction
MaxNX == 4
\* spacing of the checkpoints of the volume series that are tried for the
\* response times (5 in the notebook)
TauStep == 100
\* largest volume in those series
MaxVol == 2
\* grid points of the bed of the flowline and surging runs (nx = 200 in the
\* notebooks)
FlowNX == 3

(* Program constants *)

\* step of the slow-sliding checkpoints, np.arange(..., 10)
BgStep == 10
\* fs = 5.7e-20, the unit in which sliding parameters are counted
Fs == 1
\* fs_surge = 5.7e-20*10
FsSurgeWeak == 10
\* fs_surge = 5.7e-20*50
FsSurgeStrong == 50

\* y0=0. : the initial year handed to FlowlineModel
Y0 == 0
\* step of the reporting loop, np.arange(0, 601, 5)
LoopStep == 5
\* ELA of the LinearMassBalance used by the flowline and surging notebooks
Ela0 == 3000
\* top altitude of the linear bed
Top == 3400
\* bottom altitude of the linear bed
Bottom == 1400
\* widths = np.zeros(nx) + 3.
RectWidth == 3
\* spinup_model.run_until(1200)
SpinupYears == 1200
\* yrs = np.arange(0, 901, 5, dtype=np.float32)
ElaStop == 901
ElaStep == 5
\* current_ela = 3000.
Ela1 == 3000
\* if yr >= 100: current_ela = 2800
Yr2 == 100
Ela2 == 2800
\* if yr >= 500: current_ela = 3200
Yr3 == 500
Ela3 == 3200
\* tl = 1 - 1 / np.e = 0.6321205..., as the fraction TlNum / TlDen; no
\* quotient of two volume differences of the model lies between the two
TlNum == 632121
TlDen == 1000000
\* glacier width at the top of the accumulation area
ACCW == 1000
\* glacier width at the equilibrium line altitude
ELAW == 500
\* NZ = 1 / 3: fractions of the grid are counted in thirds
NzDen == 3

Max(a, b) == IF a >= b THEN a ELSE b
Min(a, b) == IF a <= b THEN a ELSE b

\* np.arange(start, stop, step) for a positive integer step
arange(start, stop, step) ==
    LET n == IF stop > start THEN (stop - start + step - 1) \div step ELSE 0
    IN  [k \in 1..n |-> start + (k - 1) * step]

\* np.zeros(n)
zeros(n) == [k \in 1..n |-> 0]

\* a[k] of a numpy array for the Python index k: a negative index counts from
\* the end, an index outside -len..len-1 raises IndexError
PyIndexOk(a, k) == k >= -Len(a) /\ k < Len(a)
PyAt(a, k) == IF k >= 0 THEN a[k + 1] ELSE a[Len(a) + k + 1]

\* the first of a non-empty set of indices: np.where(...)[0][0]
FirstIndex(S) == CHOOSE j \in S : \A k \in S : j <= k

\* the common denominator of the samples of np.linspace(start, stop, num)
LinspaceDiv(num) == IF num > 1 THEN num - 1 ELSE 1

\* faulty variant: the samples start one step below start
linspace_from_one(start, stop, num) ==
    [k \in 1..num |-> start * LinspaceDiv(num) + k * (stop - start)]

\* np.linspace(start, stop, num) for num >= 0: num evenly spaced samples,
\* start + k * (stop - start) / (num - 1) for k = 0..num-1; a single sample is
\* start. Sample k is held as its numerator over LinspaceDiv(num).
linspace(start, stop, num) ==
    [k \in 1..num |-> start * LinspaceDiv(num) + (k - 1) * (stop - start)]

\* faulty variant: the size of the accumulation area is rounded up
define_widths_rounded_up(topw, bottomw, n, num) ==
    [k \in 1..n |-> IF k <= (num * n + NzDen - 1) \div NzDen THEN topw ELSE bottomw]

\* edu.define_widths_with_trapezoidal_shape_at_top(topw, bottomw, nx, nz):
\* topw on the first floor(nz * nx) grid points, bottomw on the others;
\* nz = num / NzDen
define_widths_with_trapezoidal_shape_at_top(topw, bottomw, n, num) ==
    [k \in 1..n |-> IF k <= (num * n) \div NzDen THEN topw ELSE bottomw]

RECURSIVE SumSeq(_)
SumSeq(s) == IF s = <<>> THEN 0 ELSE Head(s) + SumSeq(Tail(s))

\* RectangularBedFlowline(surface_h=..., bed_h=..., widths=..., map_dx=...):
\* the ice thickness is surface_h - bed_h
RectangularBedFlowline(sfc, bed, w) ==
    LET thick == [k \in 1..Len(bed) |-> sfc[k] - bed[k]]
    IN  [surface_h |-> sfc, bed_h |-> bed, widths |-> w,
         length_m |-> Cardinality({k \in 1..Len(bed) : thick[k] > 0}),
         volume_km3 |-> SumSeq([k \in 1..Len(bed) |-> thick[k] * w[k]])]

----------------------------------------------------------------------------
(* The external flow model, reduced to what the notebooks read: the year   *)
(* counter and two scalar diagnostics that relax, one unit per simulated   *)
(* year, towards an equilibrium set by the sliding parameter and the ELA.  *)

SlideLoss(fs) == IF fs >= 50 THEN 5 ELSE IF fs >= 10 THEN 3 ELSE IF fs >= 1 THEN 1 ELSE 0

VolEq(fs, e) == Max(0, (Top - e) \div 50 - SlideLoss(fs))
LenEq(fs, e) == Max(0, (Top - e) \div 50 + SlideLoss(fs))

Towards(x, target) == IF x < target THEN x + 1 ELSE IF x > target THEN x - 1 ELSE x

\* FlowlineModel(flowline, mb_model=..., y0=..., fs=...): the model starts at
\* y0 on its own copy of the flowline handed in
FlowlineModel(f, e, y0, fs) ==
    [yr |-> y0, length_m |-> f.length_m, volume_km3 |-> f.volume_km3,
     fs |-> fs, mb_model |-> e]

\* one simulated year of the flow model
step(m) ==
    [m EXCEPT !.yr = m.yr + 1,
              !.volume_km3 = Towards(m.volume_km3, VolEq(m.fs, m.mb_model)),
              !.length_m = Towards(m.length_m, LenEq(m.fs, m.mb_model))]

\* model.area_km2 of a rectangular bed: the glacier length times the width
area_km2(m) == m.length_m * RectWidth

\* model.fls: the flowline of the model in its current state
fls(m, f) == [f EXCEPT !.length_m = m.length_m, !.volume_km3 = m.volume_km3]

RECURSIVE run_until_backward(_, _)
\* faulty variant: the clock is set back when an earlier year is asked for
run_until_backward(m, y1) ==
    IF y1 < m.yr THEN [m EXCEPT !.yr = y1]
    ELSE IF y1 = m.yr THEN m
    ELSE run_until_backward(step(m), y1)

RECURSIVE run_until_relative(_, _)
\* faulty variant: the argument is taken as a duration ("run for y1 years")
run_until_relative(m, y1) ==
    IF y1 <= 0 THEN m ELSE run_until_relative(step(m), y1 - 1)

RECURSIVE run_years(_, _)
\* n simulated years in a row, n >= 0, as two halves; the state after the
\* first half is computed before the second half starts, which keeps the
\* evaluation shallow
run_years(m, n) ==
    IF n = 0 THEN m
    ELSE IF n = 1 THEN step(m)
    ELSE CHOOSE r \in {run_years(half, n - n \div 2) : half \in {run_years(m, n \div 2)}} : TRUE

\* model.run_until(y1): step while the model year is before y1
run_until(m, y1) ==
    IF y1 <= m.yr THEN m ELSE run_years(m, y1 - m.yr)

----------------------------------------------------------------------------
(* flowline_model notebook *)

\* the variables a notebook does not use
NoGeometry == top = 0 /\ bottom = 0 /\ nx = 0 /\ nz_num = 0
NoElaRun == current_ela = 0 /\ area = <<>> /\ assigned = <<>>

\* bed_h = np.linspace(3400, 1400, nx); surface_h = bed_h;
\* widths = np.zeros(nx) + 3.; init_flowline = RectangularBedFlowline(...)
LinearBedFlowline ==
    /\ bed_h = linspace(Top, Bottom, FlowNX)
    /\ widths = [k \in 1..FlowNX |-> zeros(FlowNX)[k] + RectWidth]
    /\ init_flowline = RectangularBedFlowline(bed_h, bed_h, widths)

\* model = FlowlineModel(init_flowline, mb_model=mb_model, y0=0.)
InitFlowline ==
    /\ pc = "basics"
    /\ LinearBedFlowline
    /\ model = FlowlineModel(init_flowline, Ela0, Y0, 0)
    /\ calls = <<>>
    /\ yrs = <<>> /\ surge = <<>> /\ i = 0
    /\ length = <<>> /\ vol = <<>> /\ yr_rec = <<>>
    /\ t_slow = 0 /\ period_s = 0 /\ no_surges = 0 /\ fs_surge = 0
    /\ initial = <<>> /\ ela = 0 /\ mb_grad = 0
    /\ mb_sfc = <<>>
    /\ raised = <<>> /\ spans = <<>>
    /\ y_1 = 0 /\ y_2 = 0 /\ surging_model = <<>>
    /\ NoGeometry /\ NoElaRun

\* a cell "model.run_until(runtime)" run with some year
CallRunUntil(y) ==
    /\ pc = "basics"
    /\ Len(calls) < MaxCalls
    /\ model' = run_until(model, y)
    /\ calls' = Append(calls, [arg |-> y, fs |-> model.fs, before |-> model, after |-> model'])
    /\ UNCHANGED <<pc, loopVars, surgeParams, reconVars, geomVars, flVars, raised, spans, tauVars, elaVars, surging_model>>

\* "Reinitialize the model", yrs = np.arange(0, 601, 5), np.zeros(nsteps)
Reinitialize ==
    /\ pc = "basics"
    /\ pc' = "loop"
    /\ model' = FlowlineModel(init_flowline, Ela0, Y0, 0)
    /\ calls' = <<>>
    /\ yrs' = arange(0, LoopStop, LoopStep)
    /\ surge' = [k \in 1..Len(yrs') |-> FALSE]
    /\ length' = zeros(Len(yrs'))
    /\ vol' = zeros(Len(yrs'))
    /\ yr_rec' = zeros(Len(yrs'))
    /\ i' = 0
    /\ UNCHANGED <<surgeParams, reconVars, geomVars, flVars, raised, spans, tauVars, elaVars, surging_model>>

\* faulty variant of the loop body: the diagnostics are read before the run
LoopBodyRecordFirst ==
    /\ pc = "loop"
    /\ i < Len(yrs)
    /\ LET yr == yrs[i + 1]
       IN  /\ model' = run_until(model, yr)
           /\ calls' = Append(calls, [arg |-> yr, fs |-> model.fs, before |-> model, after |-> model'])
           /\ length' = [length EXCEPT ![i + 1] = model.length_m]
           /\ vol' = [vol EXCEPT ![i + 1] = model.volume_km3]
           /\ yr_rec' = [yr_rec EXCEPT ![i + 1] = model.yr]
    /\ i' = i + 1
    /\ UNCHANGED <<pc, yrs, surge, surgeParams, reconVars, geomVars, flVars, raised, spans, tauVars, elaVars, surging_model>>

\* faulty variant of the loop body: the diagnostics go to the index before
\* the checkpoint's (Python index i - 1, which is the last entry for i = 0)
LoopBodyOffByOne ==
    /\ pc = "loop"
    /\ i < Len(yrs)
    /\ LET yr == yrs[i + 1]
           at == IF i = 0 THEN Len(yrs) ELSE i
       IN  /\ model' = run_until(model, yr)
           /\ calls' = Append(calls, [arg |-> yr, fs |-> model.fs, before |-> model, after |-> model'])
           /\ length' = [length EXCEPT ![at] = model'.length_m]
           /\ vol' = [vol EXCEPT ![at] = model'.volume_km3]
           /\ yr_rec' = [yr_rec EXCEPT ![at] = model'.yr]
    /\ i' = i + 1
    /\ UNCHANGED <<pc, yrs, surge, surgeParams, reconVars, geomVars, flVars, raised, spans, tauVars, elaVars, surging_model>>

\* faulty variant of the loop body: the checkpoint after this one is skipped
LoopBodySkipsNext ==
    /\ pc = "loop"
    /\ i < Len(yrs)
    /\ LET yr == yrs[i + 1]
       IN  /\ model' = run_until(model, yr)
           /\ calls' = Append(calls, [arg |-> yr, fs |-> model.fs, before |-> model, after |-> model'])
           /\ length' = [length EXCEPT ![i + 1] = model'.length_m]
           /\ vol' = [vol EXCEPT ![i + 1] = model'.volume_km3]
           /\ yr_rec' = [yr_rec EXCEPT ![i + 1] = model'.yr]
    /\ i' = Min(i + 2, Len(yrs))
    /\ UNCHANGED <<pc, yrs, surge, surgeParams, reconVars, geomVars, flVars, raised, spans, tauVars, elaVars, surging_model>>

\* for i, yr in enumerate(yrs): model.run_until(yr); length[i] = ...; vol[i] = ...
LoopBody ==
    /\ pc = "loop"
    /\ i < Len(yrs)
    /\ LET yr == yrs[i + 1]
       IN  /\ model' = run_until(model, yr)
           /\ calls' = Append(calls, [arg |-> yr, fs |-> model.fs, before |-> model, after |-> model'])
           /\ length' = [length EXCEPT ![i + 1] = model'.length_m]
           /\ vol' = [vol EXCEPT ![i + 1] = model'.volume_km3]
           /\ yr_rec' = [yr_rec EXCEPT ![i + 1] = model'.yr]
    /\ i' = i + 1
    /\ UNCHANGED <<pc, yrs, surge, surgeParams, reconVars, geomVars, flVars, raised, spans, tauVars, elaVars, surging_model>>

\* faulty variant of the loop: the error is caught and the loop goes on
LoopBodyRaisesSwallowed ==
    /\ pc = "loop"
    /\ i < Len(yrs)
    /\ yrs[i + 1] > model.yr
    /\ \E y \in model.yr..(yrs[i + 1] - 1) : model' = run_until(model, y)
    /\ raised' = Append(raised, i + 1)
    /\ i' = i + 1
    /\ UNCHANGED <<pc, calls, yrs, surge, length, vol, yr_rec, surgeParams, reconVars,
                   geomVars, flVars, elaVars, spans, tauVars, surging_model>>

\* for i, yr in enumerate(yrs): model.run_until(yr) raises while the model
\* is stepping; the loop has no handler, so the cell ends with that error.
\* The model is left in some year before yr.
LoopBodyRaises ==
    /\ pc = "loop"
    /\ i < Len(yrs)
    /\ yrs[i + 1] > model.yr
    /\ \E y \in model.yr..(yrs[i + 1] - 1) : model' = run_until(model, y)
    /\ raised' = Append(raised, i + 1)
    /\ pc' = "NumericalInstability"
    /\ UNCHANGED <<calls, loopVars, surgeParams, reconVars, geomVars, flVars, elaVars, spans, tauVars, surging_model>>

\* the loop is exhausted: simple_glacier_h = model.fls[-1].surface_h
LoopEnd ==
    /\ pc = "loop"
    /\ i = Len(yrs)
    /\ pc' = "done"
    /\ UNCHANGED <<model, calls, loopVars, surgeParams, reconVars, geomVars, flVars, raised, spans, tauVars, elaVars, surging_model>>

Next ==
    \/ \E y \in 0..MaxYear : CallRunUntil(y)
    \/ Reinitialize
    \/ LoopBody
    \/ LoopBodyRaises
    \/ LoopEnd

Spec == InitFlowline /\ [][Next]_vars

\* the interpreter goes on with the cell it runs: a loop pass that can be
\* taken is taken, and the loop is left when the schedule is exhausted
SpecFair == Spec /\ WF_vars(LoopBody) /\ WF_vars(LoopEnd)

----------------------------------------------------------------------------
(* surging_experiment notebook: the schedule yrs *)

\* the notebook before the schedule is built: the bed, the flowline and the
\* model exist
SurgeStart ==
    /\ pc = "schedule"
    /\ LinearBedFlowline
    /\ model = FlowlineModel(init_flowline, Ela0, Y0, Fs)
    /\ calls = <<>>
    /\ yrs = <<>> /\ surge = <<>> /\ i = 0
    /\ length = <<>> /\ vol = <<>> /\ yr_rec = <<>>
    /\ initial = <<>> /\ ela = 0 /\ mb_grad = 0
    /\ mb_sfc = <<>>
    /\ raised = <<>> /\ spans = <<>>
    /\ y_1 = 0 /\ y_2 = 0 /\ surging_model = <<>>
    /\ NoGeometry /\ NoElaRun

\* model = FlowlineModel(init_flowline, mb_model=mb_model, y0=0., glen_a=A, fs=fs)
\* with the parameters of the "Define parameters" cells
InitSurge ==
    /\ t_slow \in 1..MaxTSlow
    /\ period_s \in 1..MaxPeriod
    /\ no_surges \in 0..MaxSurges
    /\ fs_surge = FsSurgeWeak
    /\ SurgeStart

\* the same cells with parameters as a user of the notebook may set them,
\* zero and negative values included
InitSurgeAny ==
    /\ t_slow \in (-1)..MaxTSlow
    /\ period_s \in (-1)..MaxPeriod
    /\ no_surges \in (-1)..MaxSurges
    /\ fs_surge = FsSurgeWeak
    /\ SurgeStart

\* faulty variant: the surge window stops one year early
yrs_sliding_short(k) ==
    arange(t_slow + 1 + t_slow * k + period_s * k,
           t_slow + period_s + t_slow * k + period_s * k, 1)

\* faulty variant: the surge window starts on the last slow checkpoint
yrs_sliding_early(k) ==
    arange(t_slow + t_slow * k + period_s * k,
           t_slow + period_s + t_slow * k + period_s * k, 1)

\* yrs_sliding = np.arange(t_slow+1+t_slow*i+period_s*i,
\*                         t_slow+period_s+1+t_slow*i+period_s*i, 1)
yrs_sliding(k) ==
    arange(t_slow + 1 + t_slow * k + period_s * k,
           t_slow + period_s + 1 + t_slow * k + period_s * k, 1)

\* yrs_normal = np.arange(t_slow+period_s+10+t_slow*i+period_s*i,
\*                        2*t_slow+period_s+10+t_slow*i+period_s*i, 10)
yrs_normal(k) ==
    arange(t_slow + period_s + BgStep + t_slow * k + period_s * k,
           2 * t_slow + period_s + BgStep + t_slow * k + period_s * k, BgStep)

\* yrs = np.arange(0, t_slow + 1, 10)
BuildBackground ==
    /\ pc = "schedule"
    /\ pc' = "cycles"
    /\ yrs' = arange(0, t_slow + 1, BgStep)
    /\ surge' = [k \in 1..Len(yrs') |-> FALSE]
    /\ i' = 0
    /\ UNCHANGED <<model, calls, length, vol, yr_rec, surgeParams, reconVars, geomVars, flVars, raised, spans, tauVars, elaVars, surging_model>>

\* one pass of "for i in np.arange(0, no_surges, 1)"
AppendCycle ==
    /\ pc = "cycles"
    /\ i < no_surges
    /\ yrs' = yrs \o yrs_sliding(i) \o yrs_normal(i)
    /\ surge' = surge \o [k \in 1..Len(yrs_sliding(i)) |-> TRUE]
                      \o [k \in 1..Len(yrs_normal(i)) |-> FALSE]
    /\ i' = i + 1
    /\ UNCHANGED <<pc, model, calls, length, vol, yr_rec, surgeParams, reconVars, geomVars, flVars, raised, spans, tauVars, elaVars, surging_model>>

----------------------------------------------------------------------------
(* surging_experiment notebook: the driver edu.surging_glacier *)

\* the sliding parameter that belongs to checkpoint n (1-based)
Intensity(n) == IF surge[n] THEN fs_surge ELSE Fs

\* surging_model = edu.surging_glacier(yrs, ..., fs, fs_surge, model):
\* the schedule is complete, the output arrays are created
CallSurgingGlacier ==
    /\ pc = "cycles"
    /\ i >= no_surges
    /\ pc' = "set"
    /\ i' = 0
    /\ length' = zeros(Len(yrs))
    /\ vol' = zeros(Len(yrs))
    /\ yr_rec' = zeros(Len(yrs))
    /\ UNCHANGED <<model, calls, yrs, surge, surgeParams, reconVars, geomVars, flVars, raised, spans, tauVars, elaVars, surging_model>>

\* faulty variant: the base value is never restored after a surge
SetSlidingSticky ==
    /\ pc = "set"
    /\ i < Len(yrs)
    /\ model' = [model EXCEPT !.fs = IF surge[i + 1] THEN fs_surge ELSE model.fs]
    /\ pc' = "advance"
    /\ UNCHANGED <<calls, loopVars, surgeParams, reconVars, geomVars, flVars, raised, spans, tauVars, elaVars, surging_model>>

\* set the sliding parameter for the checkpoint that is next
SetSliding ==
    /\ pc = "set"
    /\ i < Len(yrs)
    /\ model' = [model EXCEPT !.fs = Intensity(i + 1)]
    /\ pc' = "advance"
    /\ UNCHANGED <<calls, loopVars, surgeParams, reconVars, geomVars, flVars, raised, spans, tauVars, elaVars, surging_model>>

\* advance the model to the checkpoint year
Advance ==
    /\ pc = "advance"
    /\ model' = run_until(model, yrs[i + 1])
    /\ calls' = Append(calls, [arg |-> yrs[i + 1], fs |-> model.fs, before |-> model, after |-> model'])
    /\ pc' = "record"
    /\ UNCHANGED <<loopVars, surgeParams, reconVars, geomVars, flVars, raised, spans, tauVars, elaVars, surging_model>>

\* record length and volume at the checkpoint's index
Record ==
    /\ pc = "record"
    /\ length' = [length EXCEPT ![i + 1] = model.length_m]
    /\ vol' = [vol EXCEPT ![i + 1] = model.volume_km3]
    /\ yr_rec' = [yr_rec EXCEPT ![i + 1] = model.yr]
    /\ i' = i + 1
    /\ pc' = "set"
    /\ UNCHANGED <<model, calls, yrs, surge, surgeParams, reconVars, geomVars, flVars, raised, spans, tauVars, elaVars, surging_model>>

\* all checkpoints are done: the driver returns model, length and volume;
\* the first experiment keeps them as surging_model, the second as
\* strong_surge_model
ReturnSurgingGlacier ==
    /\ pc = "set"
    /\ i = Len(yrs)
    /\ pc' = "returned"
    /\ surging_model' = IF fs_surge = FsSurgeWeak
                        THEN [length |-> length, volume |-> vol]
                        ELSE surging_model
    /\ UNCHANGED <<model, calls, loopVars, surgeParams, reconVars, geomVars, flVars, raised, spans, tauVars, elaVars>>

\* faulty variant of the second experiment: the line that builds a new model
\* is missing and the driver gets the model of the first experiment
StrongSurgeReuse ==
    /\ pc = "returned"
    /\ fs_surge = FsSurgeWeak
    /\ fs_surge' = FsSurgeStrong
    /\ calls' = <<>>
    /\ pc' = "set"
    /\ i' = 0
    /\ length' = zeros(Len(yrs))
    /\ vol' = zeros(Len(yrs))
    /\ yr_rec' = zeros(Len(yrs))
    /\ UNCHANGED <<model, yrs, surge, t_slow, period_s, no_surges, reconVars,
                   geomVars, flVars, raised, spans, tauVars, elaVars, surging_model>>

\* "We now increase the sliding parameter": fs_surge = 5.7e-20*50;
\* model = FlowlineModel(init_flowline, mb_model=mb_model, y0=0., glen_a=A, fs=fs);
\* strong_surge_model = edu.surging_glacier(yrs, init_flowline, ..., model)
StrongSurge ==
    /\ pc = "returned"
    /\ fs_surge = FsSurgeWeak
    /\ fs_surge' = FsSurgeStrong
    /\ model' = FlowlineModel(init_flowline, Ela0, Y0, Fs)
    /\ calls' = <<>>
    /\ pc' = "set"
    /\ i' = 0
    /\ length' = zeros(Len(yrs))
    /\ vol' = zeros(Len(yrs))
    /\ yr_rec' = zeros(Len(yrs))
    /\ UNCHANGED <<yrs, surge, t_slow, period_s, no_surges, reconVars,
                   geomVars, flVars, raised, spans, tauVars, elaVars, surging_model>>

NextSurge ==
    \/ BuildBackground
    \/ AppendCycle
    \/ CallSurgingGlacier
    \/ SetSliding
    \/ Advance
    \/ Record
    \/ ReturnSurgingGlacier
    \/ StrongSurge

SpecSurge == InitSurge /\ [][NextSurge]_vars

SpecSurgeAny == InitSurgeAny /\ [][NextSurge]_vars

----------------------------------------------------------------------------
(* surging_experiment notebook: the shading of the surging periods *)

\* the plot cell starts "for i, yr in enumerate(yrs)"; the cells between the
\* construction of yrs and the plot assign neither yrs nor period_s
PlotSurging ==
    /\ pc = "cycles"
    /\ i >= no_surges
    /\ pc' = "shade"
    /\ i' = 0
    /\ spans' = <<>>
    /\ UNCHANGED <<model, calls, yrs, surge, length, vol, yr_rec, surgeParams, reconVars,
                   geomVars, flVars, raised, elaVars, tauVars, surging_model>>

\* one pass of the loop:
\* if (yr-yrs[i-1]) == 1 and (yrs[i-1+period_s]-yrs[i+period_s-2]) == 1:
\*     axs[0].axvspan(yrs[i-1], yrs[i-1+period_s], ...)
ShadeStep ==
    /\ pc = "shade"
    /\ i < Len(yrs)
    /\ IF PyAt(yrs, i) - PyAt(yrs, i - 1) # 1
       THEN i' = i + 1 /\ UNCHANGED <<pc, spans, tauVars, surging_model>>
       ELSE IF ~PyIndexOk(yrs, i - 1 + period_s) \/ ~PyIndexOk(yrs, i + period_s - 2)
       THEN pc' = "IndexError" /\ UNCHANGED <<i, spans, tauVars, surging_model>>
       ELSE IF PyAt(yrs, i - 1 + period_s) - PyAt(yrs, i + period_s - 2) # 1
       THEN i' = i + 1 /\ UNCHANGED <<pc, spans, tauVars, surging_model>>
       ELSE /\ spans' = Append(spans, [at |-> i, from |-> PyAt(yrs, i - 1),
                                          to |-> PyAt(yrs, i - 1 + period_s)])
            /\ i' = i + 1
            /\ UNCHANGED pc
    /\ UNCHANGED <<model, calls, yrs, surge, length, vol, yr_rec, surgeParams, reconVars,
                   geomVars, flVars, raised, elaVars, tauVars, surging_model>>

\* the loop is exhausted
ShadeEnd ==
    /\ pc = "shade"
    /\ i = Len(yrs)
    /\ pc' = "shaded"
    /\ UNCHANGED <<model, calls, loopVars, surgeParams, reconVars, geomVars, flVars, raised,
                   spans, tauVars, elaVars, surging_model>>

NextShade ==
    \/ BuildBackground
    \/ AppendCycle
    \/ PlotSurging
    \/ ShadeStep
    \/ ShadeEnd

SpecShade == InitSurge /\ [][NextShade]_vars

----------------------------------------------------------------------------
(* advance_and_retreat notebook: the surface without ice flow *)

\* non-increasing bed profiles of nx grid points
Beds == {b \in [1..NX -> 0..MaxElev] : \A k \in 1..(NX - 1) : b[k] >= b[k + 1]}

\* the glacier in equilibrium: initial = model.fls[0].surface_h, on or above
\* the bed; ELA and gradient of the mass balance model
InitAdvRet ==
    /\ pc = "equilibrium"
    /\ bed_h \in Beds
    /\ \E thick \in [1..NX -> 0..MaxThick] : initial = [k \in 1..NX |-> bed_h[k] + thick[k]]
    /\ ela \in 0..MaxElev
    /\ mb_grad \in 0..MaxGrad
    /\ mb_sfc = <<>>
    /\ widths = define_widths_with_trapezoidal_shape_at_top(ACCW, ELAW, NX, 1)
    /\ init_flowline = RectangularBedFlowline(bed_h, bed_h, widths)
    /\ model = FlowlineModel(init_flowline, ela, Y0, 0)
    /\ calls = <<>>
    /\ yrs = <<>> /\ surge = <<>> /\ i = 0
    /\ length = <<>> /\ vol = <<>> /\ yr_rec = <<>>
    /\ t_slow = 0 /\ period_s = 0 /\ no_surges = 0 /\ fs_surge = 0
    /\ raised = <<>> /\ spans = <<>>
    /\ y_1 = 0 /\ y_2 = 0 /\ surging_model = <<>>
    /\ NoGeometry /\ NoElaRun

\* net mass balance acc + abl of the linear mass balance law at ELA e
linear_mb(e) == [k \in 1..NX |-> mb_grad * (initial[k] - e)]

\* edu.correct_to_bed(bed_h, sfc): where the ice thickness would be negative
\* the surface is put on the bed
correct_to_bed(bed, sfc) ==
    [k \in 1..Len(bed) |-> IF sfc[k] < bed[k] THEN bed[k] ELSE sfc[k]]

AfterStage(stage) ==
    IF stage = "equilibrium" THEN "advance" ELSE IF stage = "advance" THEN "retreat" ELSE "compared"

\* faulty variant: the surface is not corrected to the bed
ReconstructUncorrected(stage, e) ==
    /\ pc = stage
    /\ LET mb_we == linear_mb(e)
           sfc == [k \in 1..NX |-> initial[k] + mb_we[k]]
       IN  mb_sfc' = Append(mb_sfc, [ela |-> e, candidate |-> sfc, sfc |-> sfc])
    /\ pc' = AfterStage(stage)
    /\ UNCHANGED <<model, calls, loopVars, surgeParams, bed_h, initial, ela, mb_grad, geomVars, flVars, raised, spans, tauVars, elaVars, surging_model>>

\* faulty variant: the balance is taken at the ELA of the glacier in
\* equilibrium instead of the ELA handed in
ReconstructStaleEla(stage, e) ==
    /\ pc = stage
    /\ LET mb_we == linear_mb(ela)
           sfc == [k \in 1..NX |-> initial[k] + mb_we[k]]
       IN  mb_sfc' = Append(mb_sfc, [ela |-> e, candidate |-> sfc, sfc |-> correct_to_bed(bed_h, sfc)])
    /\ pc' = AfterStage(stage)
    /\ UNCHANGED <<model, calls, loopVars, surgeParams, bed_h, initial, ela, mb_grad, geomVars, flVars, raised, spans, tauVars, elaVars, surging_model>>

\* faulty variant: the balance is subtracted from the surface
ReconstructMinus(stage, e) ==
    /\ pc = stage
    /\ LET mb_we == linear_mb(e)
           sfc == [k \in 1..NX |-> initial[k] - mb_we[k]]
       IN  mb_sfc' = Append(mb_sfc, [ela |-> e, candidate |-> sfc, sfc |-> correct_to_bed(bed_h, sfc)])
    /\ pc' = AfterStage(stage)
    /\ UNCHANGED <<model, calls, loopVars, surgeParams, bed_h, initial, ela, mb_grad, geomVars, flVars, raised, spans, tauVars, elaVars, surging_model>>

\* mb_we = acc + abl; mb_sfc = edu.correct_to_bed(bed_h, initial + mb_we)
Reconstruct(stage, e) ==
    /\ pc = stage
    /\ LET mb_we == linear_mb(e)
           sfc == [k \in 1..NX |-> initial[k] + mb_we[k]]
       IN  mb_sfc' = Append(mb_sfc, [ela |-> e, candidate |-> sfc, sfc |-> correct_to_bed(bed_h, sfc)])
    /\ pc' = AfterStage(stage)
    /\ UNCHANGED <<model, calls, loopVars, surgeParams, bed_h, initial, ela, mb_grad, geomVars, flVars, raised, spans, tauVars, elaVars, surging_model>>

\* mb_sfc with the ELA of the glacier in equilibrium
ReconstructInitial == Reconstruct("equilibrium", ela)

\* mb_sfc_adv with the decreased ELA ela_adv
ReconstructAdvance == \E ela_adv \in 0..ela : Reconstruct("advance", ela_adv)

\* mb_sfc_rtr with the increased ELA ela_rtr
ReconstructRetreat == \E ela_rtr \in ela..(MaxElev + MaxThick) : Reconstruct("retreat", ela_rtr)

NextAdvRet ==
    \/ ReconstructInitial
    \/ ReconstructAdvance
    \/ ReconstructRetreat

SpecAdvRet == InitAdvRet /\ [][NextAdvRet]_vars

----------------------------------------------------------------------------
(* Construction of the glacier geometry: the bed, the widths, the flowline *)

\* the parameters of the geometry cells, as a user of the notebook may set them
InitGeom ==
    /\ pc = "bed"
    /\ top \in 0..MaxAlt
    /\ bottom \in 0..MaxAlt
    /\ nx \in (-1)..MaxNX
    /\ nz_num \in (-1)..(NzDen + 1)
    /\ bed_h = <<>> /\ widths = <<>>
    /\ init_flowline = RectangularBedFlowline(<<>>, <<>>, <<>>)
    /\ model = FlowlineModel(init_flowline, Ela0, Y0, 0)
    /\ calls = <<>>
    /\ yrs = <<>> /\ surge = <<>> /\ i = 0
    /\ length = <<>> /\ vol = <<>> /\ yr_rec = <<>>
    /\ t_slow = 0 /\ period_s = 0 /\ no_surges = 0 /\ fs_surge = 0
    /\ initial = <<>> /\ ela = 0 /\ mb_grad = 0 /\ mb_sfc = <<>>
    /\ raised = <<>> /\ spans = <<>>
    /\ y_1 = 0 /\ y_2 = 0 /\ surging_model = <<>>
    /\ NoElaRun

\* bed_h = np.linspace(top, bottom, nx); numpy raises ValueError for a
\* negative number of samples and checks nothing else
DefineLinearBed ==
    /\ pc = "bed"
    /\ IF nx < 0
       THEN pc' = "ValueError" /\ UNCHANGED bed_h
       ELSE pc' = "widths" /\ bed_h' = linspace(top, bottom, nx)
    /\ UNCHANGED <<model, calls, loopVars, surgeParams, initial, ela, mb_grad, mb_sfc,
                   geomVars, flVars, raised, spans, tauVars, elaVars, surging_model>>

\* widths = edu.define_widths_with_trapezoidal_shape_at_top(topw=ACCW,
\*     bottomw=ELAW, nx=nx, nz=NZ, map_dx=map_dx)
DefineWidths ==
    /\ pc = "widths"
    /\ IF nx <= 0 \/ nz_num < 0 \/ nz_num > NzDen
       THEN pc' = "InvalidConfiguration" /\ UNCHANGED widths
       ELSE /\ pc' = "flowline"
            /\ widths' = define_widths_with_trapezoidal_shape_at_top(ACCW, ELAW, nx, nz_num)
    /\ UNCHANGED <<model, calls, loopVars, surgeParams, reconVars,
                   geomVars, init_flowline, raised, spans, tauVars, elaVars, surging_model>>

\* init_flowline = RectangularBedFlowline(surface_h=surface_h, bed_h=bed_h,
\*     widths=..., map_dx=map_dx), with no glacier: surface_h = bed_h
DefineFlowline ==
    /\ pc = "flowline"
    /\ init_flowline' = RectangularBedFlowline(bed_h, bed_h, widths)
    /\ pc' = "built"
    /\ UNCHANGED <<model, calls, loopVars, surgeParams, reconVars,
                   geomVars, widths, raised, spans, tauVars, elaVars, surging_model>>

\* np.where(widths==ELAW)[0]: the indices (1-based) at which the width is ELAW
WhereElaWidth == {k \in 1..Len(widths) : widths[k] = ELAW}

\* ela = bed_h[np.where(widths==ELAW)[0][0]]: "height where the glacier width
\* first hits ELAW"; [0] of an empty index array raises IndexError
LookupEla ==
    /\ pc = "built"
    /\ IF WhereElaWidth = {}
       THEN pc' = "IndexError" /\ UNCHANGED ela
       ELSE pc' = "ela" /\ ela' = bed_h[FirstIndex(WhereElaWidth)]
    /\ UNCHANGED <<model, calls, loopVars, surgeParams, bed_h, initial, mb_grad, mb_sfc,
                   geomVars, flVars, raised, spans, tauVars, elaVars, surging_model>>

NextGeom ==
    \/ DefineLinearBed
    \/ DefineWidths
    \/ DefineFlowline
    \/ LookupEla

SpecGeom == InitGeom /\ [][NextGeom]_vars

----------------------------------------------------------------------------
(* The run with three ELA stages (src/unnamed/part_001) *)

\* spinup_model = FlowlineModel(init_flowline, mb_model=mb_model, y0=0.)
InitEla ==
    /\ pc = "spinup"
    /\ LinearBedFlowline
    /\ model = FlowlineModel(init_flowline, Ela1, Y0, 0)
    /\ calls = <<>>
    /\ yrs = <<>> /\ surge = <<>> /\ i = 0
    /\ length = <<>> /\ vol = <<>> /\ yr_rec = <<>>
    /\ t_slow = 0 /\ period_s = 0 /\ no_surges = 0 /\ fs_surge = 0
    /\ initial = <<>> /\ ela = <<>> /\ mb_grad = 0 /\ mb_sfc = <<>>
    /\ raised = <<>> /\ spans = <<>>
    /\ y_1 = 0 /\ y_2 = 0 /\ surging_model = <<>>
    /\ NoGeometry /\ NoElaRun

\* spinup_model.run_until(1200)
Spinup ==
    /\ pc = "spinup"
    /\ model' = run_until(model, SpinupYears)
    /\ pc' = "setup"
    /\ UNCHANGED <<calls, loopVars, surgeParams, reconVars, geomVars, flVars, raised, spans, tauVars, elaVars, surging_model>>

\* model = FlowlineModel(spinup_model.fls, mb_model=mb_model, y0=0.);
\* yrs = np.arange(0, 901, 5); the output containers; current_ela = 3000.
SetUpElaRun ==
    /\ pc = "setup"
    /\ model' = FlowlineModel(fls(model, init_flowline), Ela1, Y0, 0)
    /\ yrs' = arange(0, ElaStop, ElaStep)
    /\ surge' = [k \in 1..Len(yrs') |-> FALSE]
    /\ ela' = zeros(Len(yrs'))
    /\ length' = zeros(Len(yrs'))
    /\ area' = zeros(Len(yrs'))
    /\ vol' = zeros(Len(yrs'))
    /\ yr_rec' = zeros(Len(yrs'))
    /\ current_ela' = Ela1
    /\ assigned' = <<>>
    /\ i' = 0
    /\ calls' = <<>>
    /\ pc' = "elaloop"
    /\ UNCHANGED <<surgeParams, bed_h, initial, mb_grad, mb_sfc, geomVars, flVars, raised, spans, tauVars, surging_model>>

\* faulty variant of the loop body: the two stage tests are in the other order
ElaLoopBodySwapped ==
    /\ pc = "elaloop"
    /\ i < Len(yrs)
    /\ LET yr == yrs[i + 1]
           m1 == run_until(model, yr)
           late == yr >= Yr3
           e1 == IF late THEN Ela3 ELSE current_ela
           m2 == IF late THEN [m1 EXCEPT !.mb_model = Ela3] ELSE m1
           a1 == IF late THEN <<Ela3>> ELSE <<>>
           mid == yr >= Yr2
           e2 == IF mid THEN Ela2 ELSE e1
           m3 == IF mid THEN [m2 EXCEPT !.mb_model = Ela2] ELSE m2
           a2 == IF mid THEN Append(a1, Ela2) ELSE a1
       IN  /\ model' = m3
           /\ calls' = Append(calls, [arg |-> yr, fs |-> model.fs, before |-> model, after |-> m1])
           /\ current_ela' = e2
           /\ assigned' = a2
           /\ ela' = [ela EXCEPT ![i + 1] = e2]
           /\ length' = [length EXCEPT ![i + 1] = m3.length_m]
           /\ area' = [area EXCEPT ![i + 1] = area_km2(m3)]
           /\ vol' = [vol EXCEPT ![i + 1] = m3.volume_km3]
           /\ yr_rec' = [yr_rec EXCEPT ![i + 1] = m3.yr]
    /\ i' = i + 1
    /\ UNCHANGED <<pc, yrs, surge, surgeParams, bed_h, initial, mb_grad, mb_sfc,
                   geomVars, flVars, raised, spans, tauVars, surging_model>>

\* faulty variant of the loop body: the mass balance is replaced before the
\* model is advanced to the checkpoint
ElaLoopBodyReplaceFirst ==
    /\ pc = "elaloop"
    /\ i < Len(yrs)
    /\ LET yr == yrs[i + 1]
           mid == yr >= Yr2
           e1 == IF mid THEN Ela2 ELSE current_ela
           m1 == IF mid THEN [model EXCEPT !.mb_model = Ela2] ELSE model
           a1 == IF mid THEN <<Ela2>> ELSE <<>>
           late == yr >= Yr3
           e2 == IF late THEN Ela3 ELSE e1
           m2 == IF late THEN [m1 EXCEPT !.mb_model = Ela3] ELSE m1
           a2 == IF late THEN Append(a1, Ela3) ELSE a1
           m3 == run_until(m2, yr)
       IN  /\ model' = m3
           /\ calls' = Append(calls, [arg |-> yr, fs |-> m2.fs, before |-> m2, after |-> m3])
           /\ current_ela' = e2
           /\ assigned' = a2
           /\ ela' = [ela EXCEPT ![i + 1] = e2]
           /\ length' = [length EXCEPT ![i + 1] = m3.length_m]
           /\ area' = [area EXCEPT ![i + 1] = area_km2(m3)]
           /\ vol' = [vol EXCEPT ![i + 1] = m3.volume_km3]
           /\ yr_rec' = [yr_rec EXCEPT ![i + 1] = m3.yr]
    /\ i' = i + 1
    /\ UNCHANGED <<pc, yrs, surge, surgeParams, bed_h, initial, mb_grad, mb_sfc,
                   geomVars, flVars, raised, spans, tauVars, surging_model>>

\* one pass of "for i, yr in enumerate(yrs)": model.run_until(yr);
\* if yr >= 100: ...; if yr >= 500: ...; ela[i] = current_ela; length[i] = ...
ElaLoopBody ==
    /\ pc = "elaloop"
    /\ i < Len(yrs)
    /\ LET yr == yrs[i + 1]
           m1 == run_until(model, yr)
           mid == yr >= Yr2
           e1 == IF mid THEN Ela2 ELSE current_ela
           m2 == IF mid THEN [m1 EXCEPT !.mb_model = Ela2] ELSE m1
           a1 == IF mid THEN <<Ela2>> ELSE <<>>
           late == yr >= Yr3
           e2 == IF late THEN Ela3 ELSE e1
           m3 == IF late THEN [m2 EXCEPT !.mb_model = Ela3] ELSE m2
           a2 == IF late THEN Append(a1, Ela3) ELSE a1
       IN  /\ model' = m3
           /\ calls' = Append(calls, [arg |-> yr, fs |-> model.fs, before |-> model, after |-> m1])
           /\ current_ela' = e2
           /\ assigned' = a2
           /\ ela' = [ela EXCEPT ![i + 1] = e2]
           /\ length' = [length EXCEPT ![i + 1] = m3.length_m]
           /\ area' = [area EXCEPT ![i + 1] = area_km2(m3)]
           /\ vol' = [vol EXCEPT ![i + 1] = m3.volume_km3]
           /\ yr_rec' = [yr_rec EXCEPT ![i + 1] = m3.yr]
    /\ i' = i + 1
    /\ UNCHANGED <<pc, yrs, surge, surgeParams, bed_h, initial, mb_grad, mb_sfc,
                   geomVars, flVars, raised, spans, tauVars, surging_model>>

\* the loop is exhausted
ElaLoopEnd ==
    /\ pc = "elaloop"
    /\ i = Len(yrs)
    /\ pc' = "eladone"
    /\ UNCHANGED <<model, calls, loopVars, surgeParams, reconVars, geomVars, flVars, raised, spans, tauVars, elaVars, surging_model>>

NextEla ==
    \/ Spinup
    \/ SetUpElaRun
    \/ ElaLoopBody
    \/ ElaLoopEnd

SpecEla == InitEla /\ [][NextEla]_vars

----------------------------------------------------------------------------
(* The response times of the run with three ELA stages (src/unnamed/part_001) *)

\* np.max(a), np.min(a); the index of np.max(volume) is in the first set
\* below and the index of np.min(volume) in the second
np_max(a) == CHOOSE x \in {a[k] : k \in 1..Len(a)} : \A k \in 1..Len(a) : x >= a[k]
np_min(a) == CHOOSE x \in {a[k] : k \in 1..Len(a)} : \A k \in 1..Len(a) : x <= a[k]

\* np.where(volume >= (np.max(volume)-volume[0])*tl+volume[0])
WhereAdvanced(volume) ==
    {j \in 1..Len(volume) :
        (volume[j] - volume[1]) * TlDen >= (np_max(volume) - volume[1]) * TlNum}

\* np.where(volume <= np.max(volume) - np.abs((np.max(volume)-np.min(volume))*tl))
WhereRetreated(volume) ==
    {j \in 1..Len(volume) :
        (np_max(volume) - volume[j]) * TlDen >= (np_max(volume) - np_min(volume)) * TlNum}

\* the shape of the volume of a three-stage run: constant up to year 100,
\* not falling from year 100 to year 500, not rising from year 500 on
ThreeStageShape(years, volume) ==
    \A j \in 1..(Len(years) - 1) :
        /\ years[j + 1] <= Yr2 => volume[j + 1] = volume[j]
        /\ (years[j] >= Yr2 /\ years[j + 1] <= Yr3) => volume[j + 1] >= volume[j]
        /\ years[j] >= Yr3 => volume[j + 1] <= volume[j]

\* the recorded series of some three-stage run
InitTau ==
    /\ pc = "tau"
    /\ yrs = arange(0, ElaStop, TauStep)
    /\ vol \in {v \in [1..Len(yrs) -> 0..MaxVol] : ThreeStageShape(yrs, v)}
    /\ LinearBedFlowline
    /\ model = FlowlineModel(init_flowline, Ela1, Y0, 0)
    /\ calls = <<>>
    /\ surge = <<>> /\ i = 0
    /\ length = <<>> /\ yr_rec = <<>>
    /\ t_slow = 0 /\ period_s = 0 /\ no_surges = 0 /\ fs_surge = 0
    /\ initial = <<>> /\ ela = <<>> /\ mb_grad = 0 /\ mb_sfc = <<>>
    /\ raised = <<>> /\ spans = <<>>
    /\ y_1 = 0 /\ y_2 = 0 /\ surging_model = <<>>
    /\ NoGeometry /\ NoElaRun

\* y1 = yrs[np.where(...)][0]; y2 = yrs[np.where(...)][0]; print(y1-100, y2-500)
ResponseTimes ==
    /\ pc = "tau"
    /\ y_1' = yrs[FirstIndex(WhereAdvanced(vol))]
    /\ y_2' = yrs[FirstIndex(WhereRetreated(vol))]
    /\ pc' = "printed"
    /\ UNCHANGED <<model, calls, loopVars, surgeParams, reconVars, geomVars, flVars, raised,
                   spans, elaVars, surging_model>>

NextTau == ResponseTimes

SpecTau == InitTau /\ [][NextTau]_vars

----------------------------------------------------------------------------
(* Properties of the flowline_model notebook *)

StrictlyIncreasing(s) == \A j \in 1..(Len(s) - 1) : s[j] < s[j + 1]

\* the call history is the history of the current model object
CallsChained ==
    /\ \A n \in 1..(Len(calls) - 1) : calls[n + 1].before = calls[n].after
    /\ calls # <<>> => /\ calls[1].before = FlowlineModel(init_flowline, calls[1].before.mb_model, Y0, calls[1].before.fs)
                       /\ raised = <<>> => model.yr = calls[Len(calls)].after.yr

\* C1: run_until(Y2) with Y2 not later than the model's current year is a
\* no-op: year, length, volume and parameters after the call are exactly those
\* before it, and the model object holds that state.
C1_BackwardIsNoOp ==
    pc = "basics" =>
        \A n \in 1..Len(calls) :
            calls[n].arg <= calls[n].before.yr =>
                /\ calls[n].after = calls[n].before
                /\ (n = Len(calls) => model = calls[n].before)

\* C1 witness: an evolved glacier was asked to go back to an earlier year
C1_Witness ==
    /\ pc = "basics"
    /\ \E n \in 1..Len(calls) :
        /\ calls[n].arg < calls[n].before.yr
        /\ calls[n].before.volume_km3 > 0

\* C2: run_until is idempotent: a call with the same year as the call before
\* it leaves year, length and volume as the first call left them.
C2_Idempotent ==
    pc = "basics" =>
        \A n \in 1..(Len(calls) - 1) :
            calls[n + 1].arg = calls[n].arg =>
                /\ calls[n + 1].after.yr = calls[n].after.yr
                /\ calls[n + 1].after.length_m = calls[n].after.length_m
                /\ calls[n + 1].after.volume_km3 = calls[n].after.volume_km3

\* C2 witness: the first of two equal calls really advanced the model
C2_Witness ==
    /\ pc = "basics"
    /\ \E n \in 1..(Len(calls) - 1) :
        /\ calls[n + 1].arg = calls[n].arg
        /\ calls[n].arg > calls[n].before.yr
        /\ calls[n].after.volume_km3 > calls[n].before.volume_km3

\* C3: the year counter starts at the initial year y0 and, over any sequence
\* of run_until calls (also with decreasing years), never decreases: after
\* run_until(Y) the year is the larger of the previous year and Y.
C3_YearMonotone ==
    /\ CallsChained
    /\ (calls = <<>> /\ pc \in {"basics", "loop"}) => model.yr = Y0
    /\ \A n \in 1..Len(calls) :
        /\ calls[n].after.yr >= calls[n].before.yr
        /\ calls[n].after.yr = Max(calls[n].before.yr, calls[n].arg)

\* C3 witness: a later year, then an earlier one, then a later one again
C3_Witness ==
    /\ Len(calls) = 3
    /\ calls[1].arg > Y0
    /\ calls[2].arg < calls[1].arg
    /\ calls[3].arg > calls[1].arg

\* C4: over a strictly increasing schedule the model year seen when a
\* checkpoint's diagnostics are recorded is that checkpoint's year; the
\* recorded years are strictly increasing and, at the end, are the schedule.
C4_RecordedYears ==
    (pc \in {"loop", "done"} /\ StrictlyIncreasing(yrs)) =>
        /\ \A j \in 1..i : yr_rec[j] = yrs[j]
        /\ StrictlyIncreasing(SubSeq(yr_rec, 1, i))
        /\ pc = "done" => (yr_rec = yrs /\ Len(yr_rec) = Len(arange(0, LoopStop, LoopStep)))

\* C4 witness: the loop ran to its end over several checkpoints
C4_Witness ==
    /\ pc = "done"
    /\ Len(yrs) >= 3
    /\ yr_rec[Len(yrs)] = yrs[Len(yrs)]
    /\ vol[Len(yrs)] > vol[2]

----------------------------------------------------------------------------
(* Properties of the surging_experiment notebook *)

\* the construction loop of yrs has finished
ScheduleBuilt == pc \in {"set", "advance", "record", "returned"}

\* first indices of the maximal contiguous runs of surge checkpoints
RunStarts == {j \in 1..Len(yrs) : surge[j] /\ (j = 1 \/ ~surge[j - 1])}

\* number of checkpoints of the maximal run that starts at index j
RunLen(j) ==
    CHOOSE n \in 1..Len(yrs) :
        /\ \A l \in 0..(n - 1) : j + l <= Len(yrs) /\ surge[j + l]
        /\ (j + n > Len(yrs) \/ ~surge[j + n])

\* index at which the k-th run (k = 0, 1, ...) starts
KthStart(k) == CHOOSE j \in RunStarts : Cardinality({x \in RunStarts : x < j}) = k

\* C5: for no_surges = N the schedule holds exactly N maximal contiguous runs
\* of surge checkpoints, each of exactly period_s checkpoints (after i passes
\* of the construction loop there are i of them).
C5_SurgeRuns ==
    /\ pc = "cycles" => Cardinality(RunStarts) = i
    /\ ScheduleBuilt => Cardinality(RunStarts) = no_surges
    /\ (pc = "cycles" \/ ScheduleBuilt) => \A j \in RunStarts : RunLen(j) = period_s

\* C5 witness: several runs of several checkpoints each
C5_Witness ==
    /\ ScheduleBuilt
    /\ no_surges = 3 /\ period_s = 2
    /\ Cardinality(RunStarts) = 3

\* C6: for every configuration with positive t_slow, positive period_s and
\* no_surges >= 0 the checkpoint sequence yrs is strictly increasing (and so
\* holds no year twice).
C6_StrictlyIncreasing ==
    (ScheduleBuilt /\ t_slow > 0 /\ period_s > 0 /\ no_surges >= 0) =>
        StrictlyIncreasing(yrs)

\* C7: the surge windows recur with period t_slow + period_s: the k-th window
\* (k = 0..N-1) starts at year t_slow + 1 + k*(t_slow + period_s) and covers
\* period_s consecutive integer years.
C7_WindowsRecur ==
    ScheduleBuilt =>
        /\ Cardinality(RunStarts) = no_surges
        /\ \A k \in 0..(no_surges - 1) :
            LET j == KthStart(k)
            IN  /\ yrs[j] = t_slow + 1 + k * (t_slow + period_s)
                /\ j + period_s - 1 <= Len(yrs)
                /\ \A l \in 0..(period_s - 1) : surge[j + l] /\ yrs[j + l] = yrs[j] + l
                /\ (j + period_s <= Len(yrs) => ~surge[j + period_s])

\* C7 witness: a third window exists, one full period after the second
C7_Witness ==
    /\ ScheduleBuilt
    /\ no_surges = 3 /\ period_s = 3 /\ t_slow = 20
    /\ yrs[KthStart(2)] - yrs[KthStart(1)] = t_slow + period_s

\* C8: the schedule starts with the slow checkpoints 0, 10, ..., t_slow
\* (t_slow/10 + 1 entries, none a surge checkpoint), followed by the period_s
\* consecutive surge years t_slow+1 .. t_slow+period_s, followed by slow
\* checkpoints spaced by 10; surge windows are sampled every year and slow
\* windows every 10 years.
C8_ScheduleShape ==
    (ScheduleBuilt /\ no_surges >= 1) =>
        LET nbg == t_slow \div BgStep + 1
        IN  /\ Len(yrs) >= nbg + period_s + 1
            /\ \A j \in 1..nbg : yrs[j] = (j - 1) * BgStep /\ ~surge[j]
            /\ yrs[nbg] = t_slow
            /\ \A l \in 1..period_s : yrs[nbg + l] = t_slow + l /\ surge[nbg + l]
            /\ ~surge[nbg + period_s + 1]
            /\ \A j \in 1..(Len(yrs) - 1) :
                /\ (surge[j] /\ surge[j + 1]) => yrs[j + 1] - yrs[j] = 1
                /\ (~surge[j] /\ ~surge[j + 1]) => yrs[j + 1] - yrs[j] = BgStep

\* C9: for each checkpoint, in schedule order, the driver first sets the
\* sliding parameter to fs_surge iff the checkpoint is a surge checkpoint and
\* to fs otherwise, then advances the model to the checkpoint year, then
\* records length and volume at the checkpoint's index; no advance is made
\* with a sliding value that does not match its checkpoint.
C9_DriverOrder ==
    ScheduleBuilt =>
        /\ \A n \in 1..Len(calls) :
            /\ calls[n].arg = yrs[n]
            /\ calls[n].fs = Intensity(n)
        /\ pc = "advance" => (Len(calls) = i /\ model.fs = Intensity(i + 1))
        /\ pc = "record" => (Len(calls) = i + 1 /\ model = calls[i + 1].after)
        /\ pc \in {"set", "returned"} => Len(calls) = i
        /\ \A j \in 1..i : /\ length[j] = calls[j].after.length_m
                            /\ vol[j] = calls[j].after.volume_km3
        /\ \A j \in (i + 1)..Len(yrs) : length[j] = 0 /\ vol[j] = 0

\* C9 witness: the driver returned after surge and slow checkpoints, with the
\* surge value in force for a surge checkpoint and the base value after it
C9_Witness ==
    /\ pc = "returned"
    /\ \E n \in 1..(Len(calls) - 1) :
        /\ surge[n] /\ ~surge[n + 1]
        /\ calls[n].fs = fs_surge /\ calls[n + 1].fs = Fs
        /\ length[n + 1] > 0

----------------------------------------------------------------------------
(* Properties of the advance_and_retreat notebook *)

\* C10: for every surface, bed, ELA and gradient every index of a
\* reconstructed no-flow surface is on or above the bed (the implied ice
\* thickness is never negative).
C10_OnOrAboveBed ==
    \A n \in 1..Len(mb_sfc) :
        /\ Len(mb_sfc[n].sfc) = Len(bed_h)
        /\ \A k \in 1..Len(bed_h) : mb_sfc[n].sfc[k] >= bed_h[k]

\* C10 witness: mb_sfc, mb_sfc_adv and mb_sfc_rtr are all computed, and in the
\* last the mass balance would put one point under the bed and leaves ice on
\* another
C10_Witness ==
    /\ pc = "compared"
    /\ Len(mb_sfc) = 3
    /\ \E k \in 1..NX : /\ mb_sfc[3].candidate[k] < bed_h[k]
                         /\ mb_sfc[3].sfc[k] = bed_h[k]
    /\ \E k \in 1..NX : mb_sfc[3].sfc[k] > bed_h[k]

\* C11: a reconstructed surface is, at every index, exactly the larger of
\* initial[i] + gradient * (initial[i] - ela) and bed[i]; it has the length of
\* the bed, and where that candidate is not below the bed it is kept as it is.
C11_ReconstructIsMax ==
    \A n \in 1..Len(mb_sfc) :
        /\ Len(mb_sfc[n].sfc) = Len(bed_h)
        /\ \A k \in 1..Len(bed_h) :
            LET cand == initial[k] + mb_grad * (initial[k] - mb_sfc[n].ela)
            IN  /\ mb_sfc[n].sfc[k] = Max(cand, bed_h[k])
                /\ (cand >= bed_h[k] => mb_sfc[n].sfc[k] = cand)

\* C11 witness: with a lowered ELA one index keeps a candidate above the bed
\* and another is put on the bed
C11_Witness ==
    /\ Len(mb_sfc) >= 2
    /\ mb_sfc[2].ela < ela
    /\ \E k \in 1..NX : /\ initial[k] + mb_grad * (initial[k] - mb_sfc[2].ela) > bed_h[k]
                         /\ mb_sfc[2].sfc[k] > bed_h[k]
    /\ \E k \in 1..NX : /\ initial[k] + mb_grad * (initial[k] - mb_sfc[2].ela) < bed_h[k]
                         /\ mb_sfc[2].sfc[k] = bed_h[k]

\* C12: with the surface on the bed everywhere, a gradient >= 0 and an ELA at
\* or above the highest bed elevation the reconstructed surface is the bed.
C12_BareBedStaysBare ==
    \A n \in 1..Len(mb_sfc) :
        ( /\ initial = bed_h
          /\ mb_grad >= 0
          /\ \A k \in 1..Len(bed_h) : mb_sfc[n].ela >= bed_h[k] )
        => mb_sfc[n].sfc = bed_h

\* C12 witness: a bare bed, a positive gradient and an ELA strictly above the
\* bed, so that the balance is negative somewhere
C12_Witness ==
    /\ initial = bed_h
    /\ mb_grad > 0
    /\ \E n \in 1..Len(mb_sfc) :
        /\ \A k \in 1..NX : mb_sfc[n].ela >= bed_h[k]
        /\ \E k \in 1..NX : mb_sfc[n].candidate[k] < bed_h[k]
        /\ mb_sfc[n].sfc = bed_h

----------------------------------------------------------------------------
(* Properties of the geometry construction *)

\* the bed construction has returned a profile
BedBuilt == pc \in {"widths", "flowline", "built", "InvalidConfiguration"}

NonIncreasing(s) == \A j \in 1..(Len(s) - 1) : s[j] >= s[j + 1]

\* the bed has nx samples, does not rise, starts at top and ends at bottom
\* (the samples are held as numerators over LinspaceDiv(nx))
LinearFromTopToBottom ==
    /\ Len(bed_h) = nx
    /\ NonIncreasing(bed_h)
    /\ bed_h[1] = top * LinspaceDiv(nx)
    /\ bed_h[nx] = bottom * LinspaceDiv(nx)

\* C13 as stated: for every valid (top, bottom, nx), that is nx > 0 and
\* top > bottom, the bed has nx samples, is non-increasing, starts at top and
\* ends at bottom.
C13_AsStated ==
    (BedBuilt /\ nx > 0 /\ top > bottom) => LinearFromTopToBottom

\* C13 amended: for every valid (top, bottom, nx) with at least two grid
\* points the bed has nx samples, is non-increasing, starts at top and ends at
\* bottom.
C13_LinearBed ==
    (BedBuilt /\ nx >= 2 /\ top > bottom) => LinearFromTopToBottom

\* C13 witness: a bed of three or more grid points that falls at each of them
C13_Witness ==
    /\ BedBuilt /\ nx >= 3 /\ top > bottom
    /\ Len(bed_h) = nx
    /\ \A j \in 1..(nx - 1) : bed_h[j] > bed_h[j + 1]

C15_InvalidGeometryFails ==
    /\ (nx <= 0 \/ top <= bottom) =>
            /\ pc \in {"bed", "ValueError", "InvalidConfiguration"}
            /\ bed_h = <<>>
    /\ (nx <= 0 \/ nz_num < 0 \/ nz_num > NzDen) =>
            /\ pc \in {"bed", "widths", "ValueError", "InvalidConfiguration"}
            /\ widths = <<>>

----------------------------------------------------------------------------
(* Properties of the surge schedule for arbitrary parameters *)

\* C16: whenever t_slow or period_s is not positive, or no_surges is negative,
\* the construction of the schedule fails: the construction cell does not run
\* to its end and no schedule is handed to the driver (the step of the slow
\* checkpoints is the literal 10 and always positive).
C16_InvalidScheduleFails ==
    (t_slow <= 0 \/ period_s <= 0 \/ no_surges < 0) =>
        pc \in {"schedule", "cycles", "InvalidConfiguration"}

----------------------------------------------------------------------------
(* Properties of the reporting loop: errors and the order of the records *)

\* C17: when run_until raises at a checkpoint the loop ends with that error:
\* it is raised once (no second attempt), at the checkpoint that was next, no
\* call is made for a later checkpoint and nothing is recorded from that
\* checkpoint on.
C17_InstabilityPropagates ==
    raised # <<>> =>
        /\ pc = "NumericalInstability"
        /\ Len(raised) = 1
        /\ raised[1] = i + 1
        /\ Len(calls) = i
        /\ \A j \in (i + 1)..Len(yrs) : length[j] = 0 /\ vol[j] = 0 /\ yr_rec[j] = 0

\* C17 witness: the error came in the middle of the schedule, with the model
\* part of the way to the checkpoint
C17_Witness ==
    /\ pc = "NumericalInstability"
    /\ raised # <<>>
    /\ i >= 1 /\ i + 1 < Len(yrs)
    /\ model.yr > yrs[i] /\ model.yr < yrs[i + 1]
    /\ vol[i] > 0

\* C18: length and vol have one entry per checkpoint; the entries of the
\* checkpoints done so far (a prefix) hold the diagnostics of their own
\* checkpoint, the entries after them still hold the initial 0, and a step
\* never changes an entry that was written.
C18_FilledInOrder ==
    /\ [](pc \in {"loop", "done", "NumericalInstability"} =>
            /\ Len(length) = Len(yrs) /\ Len(vol) = Len(yrs)
            /\ i <= Len(yrs) /\ Len(calls) = i
            /\ \A j \in 1..i : /\ length[j] = calls[j].after.length_m
                                /\ vol[j] = calls[j].after.volume_km3
            /\ \A j \in (i + 1)..Len(yrs) : length[j] = 0 /\ vol[j] = 0)
    /\ [][\A j \in 1..i : length'[j] = length[j] /\ vol'[j] = vol[j]]_vars

\* C18 witness: in the middle of the loop, with written entries that differ
\* and unwritten ones behind them
C18_Witness ==
    /\ pc = "loop"
    /\ i >= 3 /\ i < Len(yrs)
    /\ vol[i] > vol[i - 1] /\ vol[i - 1] > 0
    /\ vol[i + 1] = 0

----------------------------------------------------------------------------
(* Properties of the two surging experiments on one flowline *)

\* a model without ice in the initial year
FreshModel(m) == m.yr = Y0 /\ m.length_m = 0 /\ m.volume_km3 = 0

----------------------------------------------------------------------------
(* Properties of the run with three ELA stages *)

\* C20: the ELA recorded at a checkpoint is 3000 before year 100, 2800 from
\* year 100 to before year 500 and 3200 from year 500 on; from one record to
\* the next it stays or goes 3000 -> 2800 or 2800 -> 3200; after a pass with
\* yr >= 500 the model holds the mass balance with ELA 3200, although the
\* pass assigned the one with 2800 first.
C20_ThreeStages ==
    pc \in {"elaloop", "eladone"} =>
        /\ \A j \in 1..i :
               ela[j] = IF yrs[j] < 100 THEN 3000 ELSE IF yrs[j] < 500 THEN 2800 ELSE 3200
        /\ \A j \in 1..(i - 1) :
               \/ ela[j + 1] = ela[j]
               \/ ela[j] = 3000 /\ ela[j + 1] = 2800
               \/ ela[j] = 2800 /\ ela[j + 1] = 3200
        /\ (i >= 1 /\ yrs[i] >= 500) =>
               /\ model.mb_model = 3200
               /\ assigned = <<2800, 3200>>

\* C20 witness: the run is over and has recorded all three stages
C20_Witness ==
    /\ pc = "eladone"
    /\ \E j, k, l \in 1..Len(yrs) :
        /\ j < k /\ k < l
        /\ ela[j] = 3000 /\ ela[k] = 2800 /\ ela[l] = 3200
    /\ assigned = <<2800, 3200>>
    /\ model.yr = 900

\* the checkpoint (1-based index) of year y in the ELA run
ElaCheckpoint(y) == y \div ElaStep + 1

\* C21: in the three-stage run the interval that ends at a checkpoint is
\* simulated under the ELA recorded at the checkpoint before it (3000 for the
\* first one), and the diagnostics recorded are those at the end of that
\* interval: at years 100 and 500 the run was made under 3000 and 2800 while
\* ela[] already holds 2800 and 3200.
C21_ReplacedAfterAdvance ==
    pc \in {"elaloop", "eladone"} =>
        /\ Len(calls) = i
        /\ \A j \in 1..i :
            /\ calls[j].arg = yrs[j]
            /\ calls[j].before.mb_model = IF j = 1 THEN 3000 ELSE ela[j - 1]
            /\ calls[j].after.mb_model = calls[j].before.mb_model
            /\ length[j] = calls[j].after.length_m
            /\ vol[j] = calls[j].after.volume_km3
        /\ i >= ElaCheckpoint(100) =>
            /\ calls[ElaCheckpoint(100)].before.mb_model = 3000
            /\ ela[ElaCheckpoint(100)] = 2800
        /\ i >= ElaCheckpoint(500) =>
            /\ calls[ElaCheckpoint(500)].before.mb_model = 2800
            /\ ela[ElaCheckpoint(500)] = 3200

\* C21 witness: the run has passed year 500; the glacier grew under 2800 up
\* to year 500 and shrank after it
C21_Witness ==
    /\ pc = "elaloop"
    /\ i > ElaCheckpoint(500)
    /\ yrs[ElaCheckpoint(500)] = 500
    /\ calls[ElaCheckpoint(500)].after.volume_km3 > calls[ElaCheckpoint(100)].after.volume_km3
    /\ vol[i] < vol[ElaCheckpoint(500)]

----------------------------------------------------------------------------
(* Properties of the driver over the cyclic schedule *)

\* C22: over the whole run the sliding parameter has the surge value for
\* exactly the calls of the surge checkpoints; the years simulated by the
\* calls of one surge window are the period_s years from the last slow
\* checkpoint before the window to the window's last year; every other call
\* is made with the base value, and the base value is in force when the
\* driver returns.
C22_SurgeInterval ==
    pc = "returned" =>
        /\ Len(calls) = Len(yrs)
        /\ \A n \in 1..Len(calls) : calls[n].fs = IF surge[n] THEN fs_surge ELSE Fs
        /\ \A j \in RunStarts :
            LET last == j + period_s - 1
            IN  /\ j > 1 /\ last <= Len(yrs)
                /\ ~surge[j - 1]
                /\ calls[j].before.yr = yrs[j - 1]
                /\ calls[last].after.yr = yrs[last]
                /\ calls[last].after.yr - calls[j].before.yr = period_s
        /\ model.fs = Fs

\* C23: the slow window after each surge window has exactly t_slow/10
\* checkpoints, 10 years apart, the first 10 years after the window's last
\* surge year and the last one year before the first surge year of the next
\* window; the schedule has (t_slow/10 + 1) + no_surges*(period_s + t_slow/10)
\* entries (11 + ... for the t_slow = 100 of the notebook) and ends at year
\* t_slow + no_surges*(t_slow + period_s).
C23_BackgroundWindows ==
    (ScheduleBuilt /\ no_surges >= 1) =>
        LET n == t_slow \div BgStep
        IN  /\ n * BgStep = t_slow
            /\ Len(yrs) = (n + 1) + no_surges * (period_s + n)
            /\ yrs[Len(yrs)] = t_slow + no_surges * (t_slow + period_s)
            /\ \A k \in 0..(no_surges - 1) :
                LET last == KthStart(k) + period_s - 1
                IN  /\ last + n <= Len(yrs)
                    /\ \A l \in 1..n : ~surge[last + l] /\ yrs[last + l] = yrs[last] + BgStep * l
                    /\ (last + n < Len(yrs) =>
                            surge[last + n + 1] /\ yrs[last + n] = yrs[last + n + 1] - 1)
                    /\ (k < no_surges - 1 => last + n < Len(yrs))

----------------------------------------------------------------------------
(* Properties of the shading loop *)

\* C24: when the shading loop is through, exactly no_surges spans are shaded,
\* one per surge window and found at the index of the window's first surge
\* year; each runs from the last slow checkpoint before the window to the
\* window's last surge year and is period_s years wide.
C24_OneSpanPerWindow ==
    pc = "shaded" =>
        /\ Len(spans) = no_surges
        /\ \A k \in 0..(no_surges - 1) :
            LET j == KthStart(k)
                sp == spans[k + 1]
            IN  /\ sp.at = j - 1
                /\ j > 1 /\ ~surge[j - 1]
                /\ sp.from = yrs[j - 1]
                /\ sp.to = yrs[j + period_s - 1]
                /\ surge[j + period_s - 1]
                /\ sp.to - sp.from = period_s

\* C25: for positive t_slow and period_s and no_surges >= 1 the shading loop
\* never reads yrs outside its bounds, and the read of yrs[-1] in the first
\* pass never makes the condition true.
C25_IndexInBounds ==
    (t_slow > 0 /\ period_s > 0 /\ no_surges >= 1) =>
        /\ pc # "IndexError"
        /\ \A n \in 1..Len(spans) : spans[n].at # 0
        /\ (pc = "shade" /\ i = 0) => PyAt(yrs, 0) - PyAt(yrs, -1) # 1

----------------------------------------------------------------------------
(* Properties of the response times *)

----------------------------------------------------------------------------
(* Properties of the two surging experiments *)

\* the checkpoints (1-based) before the first surge checkpoint
BeforeFirstSurge == {n \in 1..Len(yrs) : \A k \in 1..n : ~surge[k]}

----------------------------------------------------------------------------
(* Properties of the ELA lookup *)

\* C28: for every valid width configuration (fraction in [0, 1], positive
\* grid count) the lookup of the ELA finds an index and returns the bed
\* elevation at index floor(fraction * grid_count), the first grid point whose
\* width is ELAW.
C28_ElaLookupFinds ==
    pc \in {"ela", "IndexError"} =>
        /\ pc = "ela"
        /\ widths[(nz_num * nx) \div NzDen + 1] = ELAW
        /\ \A k \in 1..((nz_num * nx) \div NzDen) : widths[k] # ELAW
        /\ ela = bed_h[(nz_num * nx) \div NzDen + 1]

----------------------------------------------------------------------------
(* Properties of the correction to the bed *)

----------------------------------------------------------------------------
(* Termination of the loop over the checkpoints *)

\* C30: the loop over a finite schedule ends, unless an advance call raises,
\* and when it has ended without an error there has been exactly one advance
\* call per checkpoint, in the order of the schedule.
C30_LoopTerminates ==
    /\ [](pc = "loop" => <>(pc = "done" \/ raised # <<>>))
    /\ []((pc = "done" /\ raised = <<>>) =>
            /\ Len(calls) = Len(yrs)
            /\ \A n \in 1..Len(yrs) : calls[n].arg = yrs[n])

\* the loop has ended after a schedule of several checkpoints
C30_Witness ==
    /\ pc = "done"
    /\ raised = <<>>
    /\ Len(yrs) > 2
    /\ Len(calls) = Len(yrs)
    /\ model.yr = yrs[Len(yrs)]

====
